---- MODULE Spec2Model ----
(***************************************************************************)
(* Model of src/src/utils/parser.py: the Token class and the expression    *)
(* tree node classes with their two serializations, to_prefix_notation     *)
(* and to_string.                                                          *)
(*                                                                         *)
(* A Python str is modelled as the sequence of its characters, so that     *)
(* concatenation, joining and decimal formatting are computed and not      *)
(* assumed.  A Python object is a record whose field "class" names its     *)
(* class; the other fields are the attributes __init__ assigns.            *)
(***************************************************************************)
EXTENDS Integers, Sequences, FiniteSets, TLC

\* --------------------------------------------------------------- bounds
\* Largest number of nodes of a tree handed to a constructor or a call.
MaxNodes == 5
\* Largest unit digit of the index values used (indices are the one- and
\* two-digit numbers 0..MaxUnit and 10..10+MaxUnit).
MaxUnit == 1

\* Largest number of nodes of each of the two trees whose encodings are compared.
MaxShapeNodes == 6

\* Largest number of lexemes of an expression text.
MaxLexemes == 7

\* Largest number of nodes of a tree that concurrent readers serialize.
MaxHeapNodes == 3

\* The number of indices of a momentum twistor bracket.
BracketArity == 4

\* --------------------------------------------------------------- strings
DigitChars == <<"0", "1", "2", "3", "4", "5", "6", "7", "8", "9">>

\* str(n) for a non-negative int n: its decimal digits.
RECURSIVE StrInt(_)
StrInt(n) ==
    IF n < 10 THEN <<DigitChars[n + 1]>>
    ELSE StrInt(n \div 10) \o <<DigitChars[(n % 10) + 1]>>

\* The value of a NumberNode: a Python int, or a float with one fractional
\* digit, whole.tenth (2.0, 2.5).
PyInt(whole) == [class |-> "int", whole |-> whole]

PyFloat(whole, tenth) == [class |-> "float", whole |-> whole, tenth |-> tenth]

\* str(value): an int prints its digits, a float always prints a fraction.
Str(value) ==
    IF value.class = "int" THEN StrInt(value.whole)
    ELSE StrInt(value.whole) \o <<".">> \o StrInt(value.tenth)

\* sep.join(parts), left to right as str.join does.
RECURSIVE Join(_, _)
Join(sep, parts) ==
    IF Len(parts) = 0 THEN <<>>
    ELSE IF Len(parts) = 1 THEN parts[1]
    ELSE parts[1] \o sep \o Join(sep, Tail(parts))

\* ''.join(map(str, indices))
RECURSIVE ConcatStr(_)
ConcatStr(indices) ==
    IF Len(indices) = 0 THEN <<>>
    ELSE StrInt(Head(indices)) \o ConcatStr(Tail(indices))

\* [str(i) for i in indices]
MapStr(indices) == [i \in 1..Len(indices) |-> StrInt(indices[i])]

\* string literals of the source
add == <<"a", "d", "d">>
sub == <<"s", "u", "b">>
mul == <<"m", "u", "l">>
div == <<"d", "i", "v">>
pow == <<"p", "o", "w">>
angle == <<"a", "n", "g", "l", "e">>
square == <<"s", "q", "u", "a", "r", "e">>
\* an operator tag and a bracket type the source does not name
dot == <<"d", "o", "t">>
curly == <<"c", "u", "r", "l", "y">>

\* The exception raised by operands[0] / operands[1] on a short list.
IndexError == <<"IndexError">>

None == [class |-> "NoneType"]

\* --------------------------------------------------------------- classes
TokenTypes ==
    {"TWISTOR", "DUAL_TWISTOR", "OPERATOR", "NUMBER", "BRACKET_OPEN",
     "BRACKET_CLOSE", "DOT", "INFINITY_TWISTOR"}

\* An argument that is a list (where None may be passed instead).
List(items) == [class |-> "list", items |-> items]

\* Token.__init__: indices or [] replaces None (and an empty list) by [].
Token(type, value, indices) ==
    [class |-> "Token", type |-> type, value |-> value,
     indices |-> IF indices.class = "NoneType" \/ Len(indices.items) = 0
                 THEN <<>> ELSE indices.items]

OperatorNode(op_type, operands) ==
    [class |-> "OperatorNode", op_type |-> op_type, operands |-> operands]

TwistorNode(index) == [class |-> "TwistorNode", index |-> index]

DualTwistorNode(index) == [class |-> "DualTwistorNode", index |-> index]

NumberNode(value) == [class |-> "NumberNode", value |-> value]

BracketNode(bracket_type, indices) ==
    [class |-> "BracketNode", bracket_type |-> bracket_type, indices |-> indices]

InfinityTwistorNode == [class |-> "InfinityTwistorNode"]

\* ------------------------------------------------ to_prefix_notation
RECURSIVE to_prefix_notation(_)

TwistorNode_to_prefix_notation(self) == << <<"Z">> \o StrInt(self.index) >>

DualTwistorNode_to_prefix_notation(self) == << <<"W">> \o StrInt(self.index) >>

\* Mutant: list(str(value)), one token per character of the text.
NumberNode_to_prefix_notation_chars(self) ==
    [i \in 1..Len(Str(self.value)) |-> <<Str(self.value)[i]>>]

NumberNode_to_prefix_notation(self) == << Str(self.value) >>

\* Mutant: the slice indices[1:] is joined, the first index is lost.
BracketNode_to_prefix_notation_slice(self) ==
    LET indices_str ==
            IF Len(self.indices) = 0 THEN <<>> ELSE ConcatStr(Tail(self.indices))
    IN  << self.bracket_type \o indices_str >>

BracketNode_to_prefix_notation(self) ==
    LET indices_str == ConcatStr(self.indices)
    IN  << self.bracket_type \o indices_str >>

InfinityTwistorNode_to_prefix_notation(self) == << <<"I">> >>

\* The loop of OperatorNode.to_prefix_notation from operand i on:
\* result.extend(operand.to_prefix_notation()) for each operand in order.
RECURSIVE ExtendFrom(_, _, _)
ExtendFrom(result, operands, i) ==
    IF i > Len(operands) THEN result
    ELSE ExtendFrom(result \o to_prefix_notation(operands[i]), operands, i + 1)

\* Mutant: the operator tag is appended after the operands (postfix).
OperatorNode_to_prefix_notation_postfix(self) ==
    ExtendFrom(<<>>, self.operands, 1) \o <<self.op_type>>

OperatorNode_to_prefix_notation(self) ==
    ExtendFrom(<<self.op_type>>, self.operands, 1)

to_prefix_notation(self) ==
    CASE self.class = "OperatorNode" -> OperatorNode_to_prefix_notation(self)
      [] self.class = "TwistorNode" -> TwistorNode_to_prefix_notation(self)
      [] self.class = "DualTwistorNode" -> DualTwistorNode_to_prefix_notation(self)
      [] self.class = "NumberNode" -> NumberNode_to_prefix_notation(self)
      [] self.class = "BracketNode" -> BracketNode_to_prefix_notation(self)
      [] self.class = "InfinityTwistorNode" ->
            InfinityTwistorNode_to_prefix_notation(self)

\* ------------------------------------------------------------ to_string
RECURSIVE to_string(_)

TwistorNode_to_string(self) == <<"Z", "_", "{">> \o StrInt(self.index) \o <<"}">>

DualTwistorNode_to_string(self) == <<"W", "_", "{">> \o StrInt(self.index) \o <<"}">>

NumberNode_to_string(self) == Str(self.value)

BracketNode_to_string(self) ==
    IF self.bracket_type = angle
    THEN <<"<">> \o Join(<<",", " ">>, MapStr(self.indices)) \o <<">">>
    ELSE IF self.bracket_type = square
    THEN <<"[">> \o Join(<<",", " ">>, MapStr(self.indices)) \o <<"]">>
    ELSE self.bracket_type \o <<"(">>
            \o Join(<<",", " ">>, MapStr(self.indices)) \o <<")">>

InfinityTwistorNode_to_string(self) == <<"I">>

\* [operand.to_string() for operand in operands]
OperandStrings(operands) == [i \in 1..Len(operands) |-> to_string(operands[i])]

\* An exception raised by an operand's to_string propagates to the caller.
Raises(strings) == \E i \in 1..Len(strings) : strings[i] = IndexError

\* Mutant: operands[1] is rendered before operands[0].
Binary_swapped(self, symbol) ==
    IF Len(self.operands) < 2 THEN IndexError
    ELSE LET a == to_string(self.operands[2])
             b == to_string(self.operands[1])
         IN  IF a = IndexError \/ b = IndexError THEN IndexError
             ELSE <<"(">> \o a \o symbol \o b \o <<")">>

\* "(" a op b ")" of the 'sub', 'div' and 'pow' branches: operands[0] and
\* operands[1] are evaluated in this order and nothing else is.
Binary(self, symbol) ==
    IF Len(self.operands) < 1 THEN IndexError
    ELSE LET a == to_string(self.operands[1])
         IN  IF a = IndexError \/ Len(self.operands) < 2 THEN IndexError
             ELSE LET b == to_string(self.operands[2])
                  IN  IF b = IndexError THEN IndexError
                      ELSE <<"(">> \o a \o symbol \o b \o <<")">>

OperatorNode_to_string(self) ==
    IF self.op_type = add THEN
        LET strings == OperandStrings(self.operands)
        IN  IF Raises(strings) THEN IndexError
            ELSE <<"(">> \o Join(<<" ", "+", " ">>, strings) \o <<")">>
    ELSE IF self.op_type = sub THEN Binary(self, <<" ", "-", " ">>)
    ELSE IF self.op_type = mul THEN
        LET strings == OperandStrings(self.operands)
        IN  IF Raises(strings) THEN IndexError
            ELSE Join(<<" ", "*", " ">>, strings)
    ELSE IF self.op_type = div THEN Binary(self, <<" ", "/", " ">>)
    ELSE IF self.op_type = pow THEN Binary(self, <<"^">>)
    ELSE
        LET strings == OperandStrings(self.operands)
        IN  IF Raises(strings) THEN IndexError
            ELSE self.op_type \o <<"(">> \o Join(<<",", " ">>, strings) \o <<")">>

to_string(self) ==
    CASE self.class = "OperatorNode" -> OperatorNode_to_string(self)
      [] self.class = "TwistorNode" -> TwistorNode_to_string(self)
      [] self.class = "DualTwistorNode" -> DualTwistorNode_to_string(self)
      [] self.class = "NumberNode" -> NumberNode_to_string(self)
      [] self.class = "BracketNode" -> BracketNode_to_string(self)
      [] self.class = "InfinityTwistorNode" -> InfinityTwistorNode_to_string(self)

\* ------------------------------------------------------------- inputs
OpTypes == {add, sub, mul, div, pow, dot}

BracketTypes == {angle, square, curly}

Indices == {i \in 0..(10 + MaxUnit) : i % 10 <= MaxUnit}

\* The lists of length 0..n over the set S.
ListsUpTo(S, n) == UNION {[1..k -> S] : k \in 0..n}

Values ==
    {PyInt(n) : n \in Indices} \cup {PyFloat(n, t) : n \in Indices, t \in 0..MaxUnit}

LeafNodes ==
    {TwistorNode(i) : i \in Indices}
    \cup {DualTwistorNode(i) : i \in Indices}
    \cup {NumberNode(v) : v \in Values}
    \cup {BracketNode(b, l) : b \in BracketTypes, l \in ListsUpTo(Indices, BracketArity)}
    \cup {InfinityTwistorNode}

\* The leaves that occur below an operator.
OperandLeaves ==
    {TwistorNode(1), NumberNode(PyFloat(1, 0)), BracketNode(angle, <<1, 0, 10, 1>>)}

\* The number of nodes of a tree.
RECURSIVE Size(_)
RECURSIVE SizeAll(_)
Size(t) == IF t.class = "OperatorNode" THEN 1 + SizeAll(t.operands) ELSE 1

SizeAll(ts) == IF Len(ts) = 0 THEN 0 ELSE Size(Head(ts)) + SizeAll(Tail(ts))

\* OperandTrees[n]: the trees of at most n nodes over OperandLeaves whose
\* operator nodes have at least one operand; OperandLists[n]: the non-empty
\* lists of such trees with at most n nodes in total.
OperandLists[n \in 0..MaxNodes] ==
    IF n = 0 THEN {}
    ELSE LET trees ==
               OperandLeaves \cup
               {OperatorNode(o, l) : o \in OpTypes, l \in OperandLists[n - 1]}
         IN  UNION {{<<t>>} \cup {<<t>> \o l : l \in OperandLists[n - Size(t)]}
                    : t \in trees}

\* The operand lists a caller passes to OperatorNode: [] and the lists that
\* leave one node for the operator itself.
OperandInputs == {<<>>} \cup OperandLists[MaxNodes - 1]

\* The trees whose encodings are compared: at most MaxShapeNodes nodes, over
\* two leaves and the tags 'add' and 'sub', every operator with 2 or more
\* operands.  ShapeLists[n]: the non-empty lists of such trees with at most n
\* nodes in total.
ShapeLeaves == {TwistorNode(1), InfinityTwistorNode}

ShapeOpTypes == {add, sub}

ShapeLists[n \in 0..MaxShapeNodes] ==
    IF n = 0 THEN {}
    ELSE LET trees ==
               ShapeLeaves \cup
               {OperatorNode(o, l) :
                    o \in ShapeOpTypes, l \in {k \in ShapeLists[n - 1] : Len(k) >= 2}}
         IN  UNION {{<<t>>} \cup {<<t>> \o l : l \in ShapeLists[n - Size(t)]}
                    : t \in trees}

ShapeTrees == {l[1] : l \in {k \in ShapeLists[MaxShapeNodes] : Len(k) = 1}}

\* ------------------------------------------------------------ tokenize
\* The tokenizer of the documentation (section 4.1); the source file holds no
\* tokenizer.  A text is a sequence of characters, positions count from 1.
\* Of the numeric literals the ones without sign and exponent are read, with
\* the first fractional digit as the value's fraction.
LexError(pos) == [class |-> "LexError", pos |-> pos]

IsDigit(c) == \E d \in 1..10 : DigitChars[d] = c

DigitValue(c) == (CHOOSE d \in 1..10 : DigitChars[d] = c) - 1

IsIdentifier(c) == IsDigit(c) \/ c \in {"Z", "W", "I", "_"}

\* The first position from i on that holds no digit.
RECURSIVE DigitsEnd(_, _)
DigitsEnd(s, i) ==
    IF i <= Len(s) /\ IsDigit(s[i]) THEN DigitsEnd(s, i + 1) ELSE i

\* int(s[i..j-1])
RECURSIVE IntOf(_, _, _)
IntOf(s, i, j) ==
    IF j <= i THEN 0 ELSE 10 * IntOf(s, i, j - 1) + DigitValue(s[j - 1])

\* The end of the numeric literal that starts with the digit at i.
NumberEnd(s, i) ==
    LET j == DigitsEnd(s, i)
    IN  IF j + 1 <= Len(s) /\ s[j] = "." /\ IsDigit(s[j + 1])
        THEN DigitsEnd(s, j + 1)
        ELSE j

\* The indices of a bracket group from position i on, up to the closing
\* character: integers separated by commas and whitespace, exactly 4 of them.
RECURSIVE BracketIndices(_, _, _, _)
BracketIndices(s, i, close, indices) ==
    IF i > Len(s) THEN LexError(i)
    ELSE IF s[i] \in {",", " "} THEN BracketIndices(s, i + 1, close, indices)
    ELSE IF IsDigit(s[i])
    THEN BracketIndices(s, DigitsEnd(s, i), close,
                        Append(indices, IntOf(s, i, DigitsEnd(s, i))))
    ELSE IF s[i] = close /\ Len(indices) = BracketArity
    THEN [class |-> "indices", items |-> indices, end |-> i + 1]
    ELSE LexError(i)

\* The first position from i on that holds no space.
RECURSIVE SkipSpaces(_, _)
SkipSpaces(s, i) ==
    IF i <= Len(s) /\ s[i] = " " THEN SkipSpaces(s, i + 1) ELSE i

Lexed(token, end) == [class |-> "lexed", token |-> token, end |-> end]

\* The bracket token of the group opened at i, given its indices.
BracketToken(s, i, group) ==
    IF group.class = "LexError" THEN group
    ELSE Lexed(Token("BRACKET_OPEN", <<s[i]>>, List(group.items)), group.end)

\* The twistor token at i, given the end j of the digits after the letter.
TwistorToken(s, i, j) ==
    IF j = i + 1 THEN LexError(i)
    ELSE Lexed(Token(IF s[i] = "Z" THEN "TWISTOR" ELSE "DUAL_TWISTOR",
                     SubSeq(s, i, j - 1), List(<<IntOf(s, i + 1, j)>>)),
               j)

\* The number token at i, given the end j of the literal.
NumberToken(s, i, j) == Lexed(Token("NUMBER", SubSeq(s, i, j - 1), None), j)

\* The token that starts at position i (which holds no space), and its end.
NextToken(s, i) ==
    LET c == s[i] IN
    IF c \in {"Z", "W"} THEN TwistorToken(s, i, DigitsEnd(s, i + 1))
    ELSE IF c = "I" THEN
        IF i + 1 <= Len(s) /\ IsIdentifier(s[i + 1]) THEN LexError(i)
        ELSE Lexed(Token("INFINITY_TWISTOR", <<c>>, None), i + 1)
    ELSE IF IsDigit(c) THEN NumberToken(s, i, NumberEnd(s, i))
    ELSE IF c \in {"<", "["} THEN
        BracketToken(s, i, BracketIndices(s, i + 1, IF c = "<" THEN ">" ELSE "]", <<>>))
    ELSE IF c \in {"+", "-", "*", "/", "^"} THEN
        Lexed(Token("OPERATOR", <<c>>, None), i + 1)
    ELSE IF c = "(" THEN Lexed(Token("BRACKET_OPEN", <<c>>, None), i + 1)
    ELSE IF c = ")" THEN Lexed(Token("BRACKET_CLOSE", <<c>>, None), i + 1)
    ELSE IF c = "." THEN Lexed(Token("DOT", <<c>>, None), i + 1)
    ELSE LexError(i)

\* The tokens of s from position i on, after the tokens read so far.
RECURSIVE TokenizeFrom(_, _, _)
\* The tokens of s after the token lexed last.
TokenizeAfter(lexed, s, tokens) ==
    IF lexed.class = "LexError" THEN lexed
    ELSE TokenizeFrom(s, SkipSpaces(s, lexed.end), Append(tokens, lexed.token))

TokenizeFrom(s, i, tokens) ==
    IF i > Len(s) THEN List(tokens)
    ELSE TokenizeAfter(NextToken(s, i), s, tokens)

tokenize(text) == TokenizeFrom(text, SkipSpaces(text, 1), <<>>)

\* --------------------------------------------------------------- parse
\* The parser of the documentation (section 4.2); the source file holds no
\* parser.  Every binary operator gives an OperatorNode of 2 operands ('+' and
\* '*' chains fold to the left into nested nodes).  A parsing function
\* returns the node and the position of the next token, or a ParseError.
ParseError(pos) == [class |-> "ParseError", pos |-> pos]

Parsed(node, pos) == [class |-> "parsed", node |-> node, pos |-> pos]

IsOperator(tokens, pos, symbols) ==
    /\ pos <= Len(tokens)
    /\ tokens[pos].type = "OPERATOR"
    /\ tokens[pos].value[1] \in symbols

\* float(text) of a literal of the tokenizer.
FloatOf(text) ==
    LET j == DigitsEnd(text, 1)
    IN  PyFloat(IntOf(text, 1, j), IF j < Len(text) THEN DigitValue(text[j + 1]) ELSE 0)

IsError(result) == result.class = "ParseError"

RECURSIVE ParseExpr(_, _)
RECURSIVE ParseTerm(_, _)
RECURSIVE ParseFactor(_, _)
RECURSIVE ParsePrimary(_, _)

\* '(' expr ')': the expression parsed, the ')' expected after it.
CloseGroup(inner, tokens) ==
    IF IsError(inner) THEN inner
    ELSE IF inner.pos <= Len(tokens) /\ tokens[inner.pos].type = "BRACKET_CLOSE"
    THEN Parsed(inner.node, inner.pos + 1)
    ELSE ParseError(inner.pos)

\* primary := Number | Twistor | DualTwistor | InfinityTwistor
\*          | AngleBracket | SquareBracket | '(' expr ')'
ParsePrimary(tokens, pos) ==
    IF pos > Len(tokens) THEN ParseError(pos)
    ELSE LET token == tokens[pos] IN
    CASE token.type = "NUMBER" -> Parsed(NumberNode(FloatOf(token.value)), pos + 1)
      [] token.type = "TWISTOR" -> Parsed(TwistorNode(token.indices[1]), pos + 1)
      [] token.type = "DUAL_TWISTOR" ->
            Parsed(DualTwistorNode(token.indices[1]), pos + 1)
      [] token.type = "INFINITY_TWISTOR" -> Parsed(InfinityTwistorNode, pos + 1)
      [] token.type = "BRACKET_OPEN" /\ token.value = <<"<">> ->
            Parsed(BracketNode(angle, token.indices), pos + 1)
      [] token.type = "BRACKET_OPEN" /\ token.value = <<"[">> ->
            Parsed(BracketNode(square, token.indices), pos + 1)
      [] token.type = "BRACKET_OPEN" /\ token.value = <<"(">> ->
            CloseGroup(ParseExpr(tokens, pos + 1), tokens)
      [] OTHER -> ParseError(pos)

\* The node of a binary operator, once its right operand is parsed.
BinaryNode(op_type, left, right) ==
    IF IsError(right) THEN right
    ELSE Parsed(OperatorNode(op_type, <<left.node, right.node>>), right.pos)

\* factor := unary ('^' unary)*, right-associative; unary := primary
FactorTail(base, tokens) ==
    IF IsError(base) THEN base
    ELSE IF IsOperator(tokens, base.pos, {"^"})
    THEN BinaryNode(pow, base, ParseFactor(tokens, base.pos + 1))
    ELSE base

ParseFactor(tokens, pos) == FactorTail(ParsePrimary(tokens, pos), tokens)

\* term := factor (('*' | '/') factor)*
RECURSIVE TermTail(_, _)
TermTail(left, tokens) ==
    IF IsError(left) THEN left
    ELSE IF IsOperator(tokens, left.pos, {"*", "/"})
    THEN TermTail(BinaryNode(IF tokens[left.pos].value = <<"*">> THEN mul ELSE div,
                             left, ParseFactor(tokens, left.pos + 1)),
                  tokens)
    ELSE left

ParseTerm(tokens, pos) == TermTail(ParseFactor(tokens, pos), tokens)

\* expr := term (('+' | '-') term)*
RECURSIVE ExprTail(_, _)
ExprTail(left, tokens) ==
    IF IsError(left) THEN left
    ELSE IF IsOperator(tokens, left.pos, {"+", "-"})
    THEN ExprTail(BinaryNode(IF tokens[left.pos].value = <<"+">> THEN add ELSE sub,
                             left, ParseTerm(tokens, left.pos + 1)),
                  tokens)
    ELSE left

ParseExpr(tokens, pos) == ExprTail(ParseTerm(tokens, pos), tokens)

\* The root of a parse that went through: every token is consumed.
Root(root, tokens) ==
    IF IsError(root) THEN root
    ELSE IF root.pos <= Len(tokens) THEN ParseError(root.pos)
    ELSE root.node

\* The tree of the tokens the tokenizer returned.
ParseTokens(tokens) ==
    IF tokens.class = "LexError" THEN tokens
    ELSE Root(ParseExpr(tokens.items, 1), tokens.items)

\* parse(text): tokenize, then one expr that consumes every token.
parse(text) == ParseTokens(tokenize(text))

\* The index lists a caller passes to Token: None, or a list that may hold
\* a negative number.
TokenIndexInputs ==
    {None} \cup {List(l) : l \in ListsUpTo({-1} \cup (0..MaxUnit), BracketArity)}

TokenValues == {<<"Z", "1">>, <<"<">>}

\* ---------------------------------------------------------------- state
VARIABLES
    obj,      \* the object constructed last: a Token, a node, or None
    prefix,   \* what obj.to_prefix_notation() returned, None before the call
    string,   \* what obj.to_string() returned or raised, None before the call
    kept,     \* a node constructed earlier that the caller still holds, or None
    kept_prefix,  \* what kept.to_prefix_notation() returned
    text,     \* the expression text given to parse, as the list of its lexemes
    reparsed, \* what parse returned for the text of obj.to_string(), or None
    nodes,    \* the heap: node id -> node object; its lists are references
    lists,    \* the heap: list id -> the items of the list object
    stack,    \* reader -> the frames of its running call, innermost first
    ret       \* reader -> what its last call returned or raised, or None

keptVars == <<kept, kept_prefix>>

tripVars == <<text, reparsed>>

heapVars == <<nodes, lists, stack, ret>>

vars == <<obj, prefix, string, keptVars, tripVars, heapVars>>

\* The threads that read one tree.
Readers == {"r1", "r2"}

\* What a call of to_string leaves with its caller: a str, or the exception.
Outcome(result) ==
    IF result = IndexError THEN [class |-> "IndexError"]
    ELSE [class |-> "str", chars |-> result]

IsNode(o) == o.class \notin {"NoneType", "Token", "LexError", "ParseError"}

Init ==
    /\ obj = None
    /\ prefix = None
    /\ string = None
    /\ kept = None
    /\ kept_prefix = None
    /\ text = <<>>
    /\ reparsed = None
    /\ nodes = <<>>
    /\ lists = <<>>
    /\ stack = [r \in Readers |-> <<>>]
    /\ ret = [r \in Readers |-> None]

\* Token(type, value, indices)
NewToken ==
    /\ obj = None
    /\ text = <<>>
    /\ \E type \in TokenTypes, value \in TokenValues, indices \in TokenIndexInputs :
          obj' = Token(type, value, indices)
    /\ UNCHANGED <<prefix, string, keptVars, tripVars, heapVars>>

\* TwistorNode(index), DualTwistorNode(index), NumberNode(value),
\* BracketNode(bracket_type, indices), InfinityTwistorNode()
NewLeafNode ==
    /\ obj = None
    /\ text = <<>>
    /\ \E node \in LeafNodes : obj' = node
    /\ UNCHANGED <<prefix, string, keptVars, tripVars, heapVars>>

\* OperatorNode(op_type, operands)
NewOperatorNode ==
    /\ obj = None
    /\ text = <<>>
    /\ \E op_type \in OpTypes, operands \in OperandInputs :
          obj' = OperatorNode(op_type, operands)
    /\ UNCHANGED <<prefix, string, keptVars, tripVars, heapVars>>

\* obj.to_prefix_notation()
CallToPrefixNotation ==
    /\ IsNode(obj)
    /\ prefix' = List(to_prefix_notation(obj))
    /\ UNCHANGED <<obj, string, keptVars, tripVars, heapVars>>

\* obj.to_string()
CallToString ==
    /\ IsNode(obj)
    /\ string' = Outcome(to_string(obj))
    /\ UNCHANGED <<obj, prefix, keptVars, tripVars, heapVars>>

Next ==
    \/ NewToken
    \/ NewLeafNode
    \/ NewOperatorNode
    \/ CallToPrefixNotation
    \/ CallToString

Spec == Init /\ [][Next]_vars

\* ------------------------------------------- two trees and their encodings
\* A tree is constructed, bottom up, by the constructors.
NewTree ==
    /\ obj = None
    /\ text = <<>>
    /\ \E node \in ShapeTrees : obj' = node
    /\ UNCHANGED <<prefix, string, keptVars, tripVars, heapVars>>

\* The caller keeps the tree and its encoding and goes on to another tree.
Keep ==
    /\ IsNode(obj)
    /\ prefix.class = "list"
    /\ kept = None
    /\ kept' = obj
    /\ kept_prefix' = prefix
    /\ obj' = None
    /\ prefix' = None
    /\ UNCHANGED <<string, tripVars, heapVars>>

NextShape ==
    \/ NewTree
    \/ CallToPrefixNotation
    \/ Keep

SpecShape == Init /\ [][NextShape]_vars

\* ------------------------------------------------------------ round trip
\* The lexemes an expression text is made of.
Lexemes == {<<"2">>, <<"Z", "1">>, <<"(">>, <<")">>, <<"*">>, <<"^">>}

\* The text: its lexemes one after the other.
RECURSIVE Flatten(_)
Flatten(lexemes) ==
    IF Len(lexemes) = 0 THEN <<>> ELSE Head(lexemes) \o Flatten(Tail(lexemes))

\* The caller writes the expression text, lexeme by lexeme.
TypeLexeme ==
    /\ obj = None
    /\ Len(text) < MaxLexemes
    /\ \E lexeme \in Lexemes : text' = Append(text, lexeme)
    /\ UNCHANGED <<obj, prefix, string, keptVars, reparsed, heapVars>>

\* obj = parse(text): the tree, or the LexError or ParseError.
Parse ==
    /\ obj = None
    /\ Len(text) > 0
    /\ obj' = parse(Flatten(text))
    /\ UNCHANGED <<prefix, string, keptVars, tripVars, heapVars>>

\* reparsed = parse(obj.to_string())
Reparse ==
    /\ string.class = "str"
    /\ reparsed = None
    /\ reparsed' = parse(string.chars)
    /\ UNCHANGED <<obj, prefix, string, keptVars, text, heapVars>>

NextRoundTrip ==
    \/ TypeLexeme
    \/ Parse
    \/ CallToString
    \/ Reparse

SpecRoundTrip == Init /\ [][NextRoundTrip]_vars

\* ------------------------------------------------- concurrent readers
\* One tree on the heap and the threads that serialize it.  A node object
\* holds its operand list and its index list by reference, as Python does; a
\* call of to_prefix_notation or to_string runs one frame per node, and the
\* threads interleave between any two steps of their calls.
HeapLeaves == {TwistorNode(1), BracketNode(angle, <<1, 0, 10, 1>>)}

HeapOpTypes == {add, sub}

HeapLists[n \in 0..MaxHeapNodes] ==
    IF n = 0 THEN {}
    ELSE LET trees ==
               HeapLeaves \cup
               {OperatorNode(o, l) : o \in HeapOpTypes, l \in HeapLists[n - 1]}
         IN  UNION {{<<t>>} \cup {<<t>> \o l : l \in HeapLists[n - Size(t)]}
                    : t \in trees}

HeapTrees == {l[1] : l \in {k \in HeapLists[MaxHeapNodes] : Len(k) = 1}}

\* The k-th node, in pre-order, of the trees of a list.
RECURSIVE Nth(_, _)
Nth(forest, k) ==
    LET t == Head(forest)
    IN  IF k = 1 THEN t
        ELSE IF k <= Size(t) THEN Nth(t.operands, k - 1)
        ELSE Nth(Tail(forest), k - Size(t))

\* The list object that node p of the tree holds.
TreeList(p) == <<"tree", p>>

\* The list object that the call at the given depth of reader r's running
\* call creates; the reader's own call is at depth 1.
ResultList(r, depth) == <<r, depth>>

\* No list: the result field of a to_string frame.
NoList == <<"none", 0>>

\* The objects of tree t: node p is the p-th node in pre-order.
InitNodes(t) ==
    [p \in 1..Size(t) |->
        LET u == Nth(<<t>>, p)
        IN  CASE u.class = "OperatorNode" ->
                    [class |-> "OperatorNode", op_type |-> u.op_type, operands |-> TreeList(p)]
              [] u.class = "BracketNode" ->
                    [class |-> "BracketNode", bracket_type |-> u.bracket_type,
                     indices |-> TreeList(p)]
              [] OTHER -> u]

InitLists(t) ==
    [l \in {TreeList(q) : q \in {k \in 1..Size(t) :
                Nth(<<t>>, k).class \in {"OperatorNode", "BracketNode"}}} |->
        LET p == l[2]
            u == Nth(<<t>>, p)
        IN  IF u.class = "OperatorNode"
            THEN [i \in 1..Len(u.operands) |->
                     p + 1 + SizeAll(SubSeq(u.operands, 1, i - 1))]
            ELSE u.indices]

\* The list objects the tree holds.
TreeListIds ==
    {nodes[p].operands : p \in {q \in DOMAIN nodes : nodes[q].class = "OperatorNode"}}
    \cup {nodes[p].indices : p \in {q \in DOMAIN nodes : nodes[q].class = "BracketNode"}}

\* The leaf node n with its list read from the heap.
LeafValue(n) ==
    IF nodes[n].class = "BracketNode"
    THEN BracketNode(nodes[n].bracket_type, lists[nodes[n].indices])
    ELSE nodes[n]

Fns == {"to_prefix_notation", "to_string"}

\* The frame of a call of fn on node self: the next operand to serialize, the
\* result list (to_prefix_notation), the operands' texts so far (to_string).
Frame(fn, self, result) ==
    [fn |-> fn, self |-> self, i |-> 1, result |-> result, strings |-> <<>>]

\* Mutant: the result is built in one buffer shared by all calls.
NewList_buffer(ls, new, items) ==
    LET id == <<"buffer", 0>>
    IN  [id |-> id,
         lists |-> [k \in DOMAIN ls \cup {id} |-> IF k = id THEN items ELSE ls[k]]]

\* A list display, [x]: the new list object holds the items.
NewList(ls, new, items) ==
    [id |-> new,
     lists |-> [k \in DOMAIN ls \cup {new} |-> IF k = new THEN items ELSE ls[k]]]

\* result.extend(other)
Extend(ls, result, other) == [ls EXCEPT ![result] = @ \o ls[other]]

\* The call of fn on node n begins: to_prefix_notation creates its result,
\* [self.op_type] or the one token of a leaf.
Enter(fn, n, ls, id) ==
    IF fn = "to_prefix_notation"
    THEN LET new == NewList(ls, id, IF nodes[n].class = "OperatorNode"
                                    THEN <<nodes[n].op_type>>
                                    ELSE to_prefix_notation(LeafValue(n)))
         IN  [frame |-> Frame(fn, n, new.id), lists |-> new.lists]
    ELSE [frame |-> Frame(fn, n, NoList), lists |-> ls]

\* The number of operands the frame serializes: all of them, and operands[0]
\* and operands[1] in the 'sub', 'div' and 'pow' branches of to_string.
Needed(f) ==
    IF nodes[f.self].class # "OperatorNode" THEN 0
    ELSE IF f.fn = "to_string" /\ nodes[f.self].op_type \in {sub, div, pow} THEN 2
    ELSE Len(lists[nodes[f.self].operands])

Finished(f) == f.i > Needed(f)

\* The frame reads an operand the list does not hold.
Missing(f) == ~Finished(f) /\ f.i > Len(lists[nodes[f.self].operands])

\* The text of an operator node, given the texts of its operands.
FormatOperator(op_type, strings) ==
    IF op_type = add THEN <<"(">> \o Join(<<" ", "+", " ">>, strings) \o <<")">>
    ELSE IF op_type = sub
    THEN <<"(">> \o strings[1] \o <<" ", "-", " ">> \o strings[2] \o <<")">>
    ELSE IF op_type = mul THEN Join(<<" ", "*", " ">>, strings)
    ELSE IF op_type = div
    THEN <<"(">> \o strings[1] \o <<" ", "/", " ">> \o strings[2] \o <<")">>
    ELSE IF op_type = pow
    THEN <<"(">> \o strings[1] \o <<"^">> \o strings[2] \o <<")">>
    ELSE op_type \o <<"(">> \o Join(<<",", " ">>, strings) \o <<")">>

\* The text a finished to_string frame returns.
Rendered(f) ==
    IF nodes[f.self].class = "OperatorNode"
    THEN FormatOperator(nodes[f.self].op_type, f.strings)
    ELSE to_string(LeafValue(f.self))

\* The heap without the lists that nothing refers to any more.
Collect(ls, stk, rt) ==
    LET live ==
            TreeListIds
            \cup UNION {{stk[r][j].result : j \in 1..Len(stk[r])} : r \in Readers}
            \cup {rt[r].id : r \in {q \in Readers : rt[q].class = "list"}}
    IN  [k \in DOMAIN ls \cap live |-> ls[k]]

\* Reader r calls fn on a node of the tree; it drops the result it held.
Call(r) ==
    /\ stack[r] = <<>>
    /\ \E fn \in Fns, n \in DOMAIN nodes :
          LET rt == [ret EXCEPT ![r] = None]
              e == Enter(fn, n, Collect(lists, stack, rt), ResultList(r, 1))
          IN  /\ stack' = [stack EXCEPT ![r] = <<e.frame>>]
              /\ lists' = e.lists
              /\ ret' = rt
    /\ UNCHANGED <<obj, prefix, string, keptVars, tripVars, nodes>>

\* The innermost frame of r calls fn on its next operand.
Descend(r) ==
    /\ stack[r] # <<>>
    /\ LET f == Head(stack[r])
       IN  /\ ~Finished(f)
           /\ ~Missing(f)
           /\ LET e == Enter(f.fn, lists[nodes[f.self].operands][f.i], lists,
                            ResultList(r, Len(stack[r]) + 1))
              IN  /\ stack' = [stack EXCEPT ![r] = <<e.frame>> \o @]
                  /\ lists' = e.lists
    /\ UNCHANGED <<obj, prefix, string, keptVars, tripVars, nodes, ret>>

\* operands[0] or operands[1] is missing: IndexError unwinds the call of r.
Raise(r) ==
    /\ stack[r] # <<>>
    /\ Missing(Head(stack[r]))
    /\ LET root == stack[r][Len(stack[r])]
           stk == [stack EXCEPT ![r] = <<>>]
           rt == [ret EXCEPT ![r] =
                     [class |-> "IndexError", fn |-> root.fn, self |-> root.self]]
       IN  /\ stack' = stk
           /\ ret' = rt
           /\ lists' = Collect(lists, stk, rt)
    /\ UNCHANGED <<obj, prefix, string, keptVars, tripVars, nodes>>

\* The innermost frame of r returns: to its caller's frame, which extends its
\* result or keeps the text, or to the reader.
Return(r) ==
    /\ stack[r] # <<>>
    /\ Finished(Head(stack[r]))
    /\ LET f == Head(stack[r])
       IN  IF Len(stack[r]) = 1
           THEN /\ stack' = [stack EXCEPT ![r] = <<>>]
                /\ ret' = [ret EXCEPT ![r] =
                              IF f.fn = "to_prefix_notation"
                              THEN [class |-> "list", fn |-> f.fn, self |-> f.self,
                                    id |-> f.result, touched |-> FALSE]
                              ELSE [class |-> "str", fn |-> f.fn, self |-> f.self,
                                    chars |-> Rendered(f)]]
                /\ UNCHANGED lists
           ELSE LET caller == stack[r][2]
                    resumed ==
                        IF f.fn = "to_prefix_notation"
                        THEN [caller EXCEPT !.i = @ + 1]
                        ELSE [caller EXCEPT !.i = @ + 1,
                                            !.strings = Append(@, Rendered(f))]
                    stk == [stack EXCEPT ![r] = <<resumed>> \o Tail(Tail(@))]
                IN  /\ stack' = stk
                    /\ lists' = IF f.fn = "to_prefix_notation"
                                THEN Collect(Extend(lists, caller.result, f.result),
                                             stk, ret)
                                ELSE lists
                    /\ UNCHANGED ret
    /\ UNCHANGED <<obj, prefix, string, keptVars, tripVars, nodes>>

\* Reader r changes the list its call returned: result.pop(0).
Mutate(r) ==
    /\ ret[r].class = "list"
    /\ ~ret[r].touched
    /\ Len(lists[ret[r].id]) > 0
    /\ lists' = [lists EXCEPT ![ret[r].id] = Tail(@)]
    /\ ret' = [ret EXCEPT ![r].touched = TRUE]
    /\ UNCHANGED <<obj, prefix, string, keptVars, tripVars, nodes, stack>>

InitReaders ==
    /\ obj \in HeapTrees
    /\ nodes = InitNodes(obj)
    /\ lists = InitLists(obj)
    /\ prefix = None
    /\ string = None
    /\ kept = None
    /\ kept_prefix = None
    /\ text = <<>>
    /\ reparsed = None
    /\ stack = [r \in Readers |-> <<>>]
    /\ ret = [r \in Readers |-> None]

NextReaders ==
    \E r \in Readers :
        \/ Call(r)
        \/ Descend(r)
        \/ Raise(r)
        \/ Return(r)
        \/ Mutate(r)

SpecReaders == InitReaders /\ [][NextReaders]_vars

\* ------------------------------------------------------------ claims
\* The token the documentation gives for a leaf: 'Z' + index, 'W' + index,
\* the text of the value, bracket_type + the indices' digits, 'I'.
LeafToken(t) ==
    CASE t.class = "TwistorNode" -> <<"Z">> \o StrInt(t.index)
      [] t.class = "DualTwistorNode" -> <<"W">> \o StrInt(t.index)
      [] t.class = "NumberNode" -> Str(t.value)
      [] t.class = "BracketNode" -> t.bracket_type \o Join(<<>>, MapStr(t.indices))
      [] t.class = "InfinityTwistorNode" -> <<"I">>

\* The pre-order walk with an explicit stack of the subtrees still to visit:
\* a node's token is emitted when it is taken off the stack, and its operands
\* are put on the stack in operand-list order.
RECURSIVE Visit(_, _)
Visit(pending, out) ==
    IF Len(pending) = 0 THEN out
    ELSE LET t == Head(pending)
         IN  IF t.class = "OperatorNode"
             THEN Visit(t.operands \o Tail(pending), Append(out, t.op_type))
             ELSE Visit(Tail(pending), Append(out, LeafToken(t)))

PreOrder(t) == Visit(<<t>>, <<>>)

\* C1: to_prefix_notation(t) is the pre-order encoding of t: an operator's
\* tag, then the encodings of its operands in operand-list order; one token
\* for a leaf.
C1_PrefixIsPreOrder ==
    (IsNode(obj) /\ prefix.class = "list") => prefix.items = PreOrder(obj)

\* An operator node with two or more operands, one of them an operator node
\* that is not the last operand, has been encoded.
C1_Witness ==
    /\ obj.class = "OperatorNode"
    /\ prefix.class = "list"
    /\ Len(obj.operands) >= 2
    /\ obj.operands[1].class = "OperatorNode"
    /\ Len(obj.operands[1].operands) >= 1

RECURSIVE CountLeaves(_)
CountLeaves(t) ==
    IF t.class = "OperatorNode"
    THEN LET n == Len(t.operands)
             upTo[i \in 0..n] ==
                 IF i = 0 THEN 0 ELSE upTo[i - 1] + CountLeaves(t.operands[i])
         IN  upTo[n]
    ELSE 1

RECURSIVE CountOperators(_)
CountOperators(t) ==
    IF t.class = "OperatorNode"
    THEN LET n == Len(t.operands)
             upTo[i \in 0..n] ==
                 IF i = 0 THEN 0 ELSE upTo[i - 1] + CountOperators(t.operands[i])
         IN  1 + upTo[n]
    ELSE 0

\* C5: the length of to_prefix_notation(t) is the number of leaf nodes of t
\* plus the number of its OperatorNodes.
C5_PrefixLength ==
    (IsNode(obj) /\ prefix.class = "list")
        => Len(prefix.items) = CountLeaves(obj) + CountOperators(obj)

\* A tree with two operator nodes and a number leaf has been encoded.
C5_Witness ==
    /\ obj.class = "OperatorNode"
    /\ prefix.class = "list"
    /\ CountOperators(obj) >= 2
    /\ \E i \in 1..Len(obj.operands) : obj.operands[i].class = "NumberNode"

\* A number leaf alone has been encoded.
C5_WitnessLeaf == obj.class = "NumberNode" /\ prefix.class = "list"

\* The texts of parts with sep between neighbours, built from the left.
Joined(sep, parts) ==
    LET n == Len(parts)
        upTo[i \in 0..n] ==
            IF i = 0 THEN <<>>
            ELSE IF i = 1 THEN parts[1]
            ELSE upTo[i - 1] \o sep \o parts[i]
    IN  upTo[n]

\* The canonical infix text of the documentation.
RECURSIVE Infix(_)
Infix(t) ==
    CASE t.class = "TwistorNode" -> <<"Z", "_", "{">> \o StrInt(t.index) \o <<"}">>
      [] t.class = "DualTwistorNode" ->
            <<"W", "_", "{">> \o StrInt(t.index) \o <<"}">>
      [] t.class = "NumberNode" -> Str(t.value)
      [] t.class = "InfinityTwistorNode" -> <<"I">>
      [] t.class = "BracketNode" ->
            LET inner == Joined(<<",", " ">>, MapStr(t.indices))
            IN  IF t.bracket_type = angle THEN <<"<">> \o inner \o <<">">>
                ELSE <<"[">> \o inner \o <<"]">>
      [] t.class = "OperatorNode" ->
            LET parts == [i \in 1..Len(t.operands) |-> Infix(t.operands[i])]
            IN  CASE t.op_type = add ->
                        <<"(">> \o Joined(<<" ", "+", " ">>, parts) \o <<")">>
                  [] t.op_type = sub ->
                        <<"(">> \o parts[1] \o <<" ", "-", " ">> \o parts[2] \o <<")">>
                  [] t.op_type = mul -> Joined(<<" ", "*", " ">>, parts)
                  [] t.op_type = div ->
                        <<"(">> \o parts[1] \o <<" ", "/", " ">> \o parts[2] \o <<")">>
                  [] t.op_type = pow ->
                        <<"(">> \o parts[1] \o <<"^">> \o parts[2] \o <<")">>
                  [] OTHER ->
                        t.op_type \o <<"(">> \o Joined(<<",", " ">>, parts) \o <<")">>

\* to_string reads a missing operand: a 'sub', 'div' or 'pow' node with fewer
\* than two operands is rendered (only its first two operands are rendered).
RECURSIVE ReadsMissingOperand(_)
ReadsMissingOperand(t) ==
    /\ t.class = "OperatorNode"
    /\ IF t.op_type \in {sub, div, pow}
       THEN \/ Len(t.operands) < 2
            \/ ReadsMissingOperand(t.operands[1])
            \/ ReadsMissingOperand(t.operands[2])
       ELSE \E i \in 1..Len(t.operands) : ReadsMissingOperand(t.operands[i])

\* C2: to_string(t) is the canonical infix text: 'add' in parentheses joined
\* by ' + ', 'sub' '(a - b)', 'mul' joined by ' * ' without parentheses, 'div'
\* '(a / b)', 'pow' '(a^b)', another tag 'tag(op1, op2, ...)', and the leaves
\* 'Z_{idx}', 'W_{idx}', '<i, j, k, l>', '[i, j, k, l]', 'I'.  The call raises
\* only where a 'sub', 'div' or 'pow' node lacks an operand it renders.
C2_StringIsInfix ==
    (/\ IsNode(obj)
     /\ string.class # "NoneType"
     /\ obj.class = "BracketNode" => obj.bracket_type \in {angle, square})
        => IF ReadsMissingOperand(obj) THEN string.class = "IndexError"
           ELSE string.class = "str" /\ string.chars = Infix(obj)

\* A 'sub', 'div' or 'pow' node with a 'mul' or 'add' operand has been rendered.
C2_Witness ==
    /\ obj.class = "OperatorNode"
    /\ string.class = "str"
    /\ obj.op_type \in {sub, div, pow}
    /\ obj.operands[1].class = "OperatorNode"
    /\ obj.operands[1].op_type \in {mul, add}
    /\ Len(obj.operands[1].operands) = 2

\* C6: a BracketNode that exists carries exactly 4 indices (a construction
\* with another number of indices produces no node).
C6_BracketHasFourIndices ==
    obj.class = "BracketNode" => Len(obj.indices) = BracketArity

RECURSIVE RespectsArities(_)
RespectsArities(t) ==
    t.class = "OperatorNode" =>
        /\ t.op_type \in {sub, div, pow} => Len(t.operands) = 2
        /\ t.op_type \in {add, mul} => Len(t.operands) >= 2
        /\ \A i \in 1..Len(t.operands) : RespectsArities(t.operands[i])

\* C7: an OperatorNode that exists has exactly 2 operands under 'sub', 'div'
\* and 'pow' and at least 2 under 'add' and 'mul', so that to_string never
\* fails on a missing operand.
C7_OperandCountFixed ==
    IsNode(obj) => RespectsArities(obj) /\ string.class # "IndexError"

\* C8: a Token holds non-negative indices, exactly 4 of them under a bracket
\* kind and exactly 1 under TWISTOR and DUAL_TWISTOR.
C8_TokenIndices ==
    obj.class = "Token" =>
        /\ \A i \in 1..Len(obj.indices) : obj.indices[i] >= 0
        /\ obj.type \in {"BRACKET_OPEN", "BRACKET_CLOSE"}
              => Len(obj.indices) = BracketArity
        /\ obj.type \in {"TWISTOR", "DUAL_TWISTOR"} => Len(obj.indices) = 1

\* The bracket nodes of obj's kind over the index lists l, whose token is the
\* one obj's call returned, hold obj's indices.
TokenIdentifies(candidates) ==
    \A l \in candidates :
        to_prefix_notation(BracketNode(obj.bracket_type, l)) = prefix.items
            => l = obj.indices

\* C10 as stated: the token of a bracket with 4 non-negative indices
\* identifies the 4 indices, also when an index has more than one digit.
C10_TokenIdentifiesIndices ==
    (/\ obj.class = "BracketNode"
     /\ Len(obj.indices) = BracketArity
     /\ prefix.class = "list")
        => TokenIdentifies([1..BracketArity -> Indices])

\* C10 amended: the token of a bracket with 4 indices in 0..9 identifies the
\* 4 indices among the brackets of its kind with 4 indices in 0..9.
C10_OneDigitTokenIdentifiesIndices ==
    (/\ obj.class = "BracketNode"
     /\ Len(obj.indices) = BracketArity
     /\ \A i \in 1..BracketArity : obj.indices[i] <= 9
     /\ prefix.class = "list")
        => TokenIdentifies([1..BracketArity -> {i \in Indices : i <= 9}])

\* A bracket of 4 one-digit indices, not all the same, has been encoded.
C10_Witness ==
    /\ obj.class = "BracketNode"
    /\ Len(obj.indices) = BracketArity
    /\ \A i \in 1..BracketArity : obj.indices[i] <= 9
    /\ obj.indices[1] # obj.indices[2]
    /\ prefix.class = "list"

\* The same class at every position, the same number of operands at every
\* operator node, in the same order.
RECURSIVE SameShape(_, _)
SameShape(a, b) ==
    /\ a.class = b.class
    /\ a.class = "OperatorNode" =>
          /\ Len(a.operands) = Len(b.operands)
          /\ \A i \in 1..Len(a.operands) : SameShape(a.operands[i], b.operands[i])

\* C4: two trees whose operator nodes respect the arities ('sub', 'div', 'pow'
\* exactly 2 operands, 'add', 'mul' 2 or more) and whose encodings are equal
\* have the same shape.
C4_PrefixDeterminesShape ==
    (/\ IsNode(obj)
     /\ IsNode(kept)
     /\ prefix.class = "list"
     /\ RespectsArities(obj)
     /\ RespectsArities(kept)
     /\ prefix = kept_prefix)
        => SameShape(obj, kept)

\* C3: for a valid expression e, parse(to_string(parse(e))) succeeds and gives
\* a tree of the shape of parse(e).
C3_RoundTrip ==
    reparsed.class # "NoneType" => IsNode(reparsed) /\ SameShape(obj, reparsed)

\* C3 on the expressions without twistors: the text of a tree of numbers
\* parses again, but to another shape where a 'mul' node is an operand of a
\* 'pow' or 'mul' node.
C3_RoundTripOfNumbers ==
    (reparsed.class # "NoneType" /\ \A i \in 1..Len(text) : text[i] # <<"Z", "1">>)
        => IsNode(reparsed) /\ SameShape(obj, reparsed)


\* The result lists reader r holds: those of its running frames and the one
\* its last call returned.
ResultIds(r) ==
    {stack[r][j].result :
        j \in {k \in 1..Len(stack[r]) : stack[r][k].fn = "to_prefix_notation"}}
    \cup (IF ret[r].class = "list" THEN {ret[r].id} ELSE {})

ResultCount(r) ==
    Cardinality({k \in 1..Len(stack[r]) : stack[r][k].fn = "to_prefix_notation"})
    + (IF ret[r].class = "list" THEN 1 ELSE 0)

\* Every call builds its own result: no list is the result of two calls, and
\* none is a list of the tree.
FreshResults ==
    /\ \A r \in Readers :
          /\ Cardinality(ResultIds(r)) = ResultCount(r)
          /\ ResultIds(r) \cap TreeListIds = {}
    /\ \A r1, r2 \in Readers : r1 # r2 => ResultIds(r1) \cap ResultIds(r2) = {}

\* The tree is as it was built.
TreeUnchanged ==
    /\ nodes = InitNodes(obj)
    /\ \A p \in DOMAIN InitLists(obj) :
          p \in DOMAIN lists /\ lists[p] = InitLists(obj)[p]

\* What a call returned is the serialization of the node it was called on,
\* whatever the other readers did meanwhile and whatever was called before.
SameResults ==
    \A r \in Readers :
        LET t == Nth(<<obj>>, ret[r].self)
        IN  /\ ret[r].class = "list" /\ ~ret[r].touched
                => lists[ret[r].id] = to_prefix_notation(t)
            /\ ret[r].class = "str" => ret[r].chars = to_string(t)
            /\ ret[r].class = "IndexError"
                => ret[r].fn = "to_string" /\ to_string(t) = IndexError

\* C9: serialization only reads the tree.  With readers interleaved step by
\* step, every call builds a new result, the tree stays as built, a repeated
\* call returns what the first returned, and a reader that changes the list
\* it was given changes neither the tree nor what another reader gets.
C9_ReadOnlySerialization == FreshResults /\ TreeUnchanged /\ SameResults

\* One reader has changed the list it was given while the other is inside a
\* nested call of to_prefix_notation on the same node.
C9_Witness ==
    \E r1, r2 \in Readers :
        /\ r1 # r2
        /\ ret[r1].class = "list"
        /\ ret[r1].touched
        /\ Len(stack[r2]) >= 2
        /\ stack[r2][Len(stack[r2])].fn = "to_prefix_notation"
        /\ stack[r2][Len(stack[r2])].self = ret[r1].self

====
